---- MODULE Spec2Model ----
(***************************************************************************)
(* A model of the transcript backend (src/app.py and the questionnaire     *)
(* modules).  Python strings are sequences of one-character strings, so    *)
(* that split, strip, join and startswith are computed, not assumed.       *)
(***************************************************************************)
EXTENDS Integers, Sequences, FiniteSets, TLC

VARIABLES
    splitIn,            \* split_transcript: the arguments (transcript, max_words)
    splitOut,           \* split_transcript: whether it has run, and its result
    upsertCall,         \* update_history_with_title_and_summary: the last call's
                        \* arguments and history.json as it was before the call
    parseIn,            \* parse_questionnaire_response: the markdown, line by line
    parseOut,           \* parse_questionnaire_response: what it returned or raised
    evalIn,             \* evaluate_answers: its arguments and the LLM's behaviour
    evalOut,            \* evaluate_answers: what it returned or raised
    latest_video_id,    \* app.py global: the video id of the latest /transcript
    latest_transcript,  \* app.py global: the transcript of the latest /transcript
    dir,                \* TRANSCRIPTS_DIR: the chunk files, oldest modification first
    history,            \* history.json: the sequence of history records
    pending,            \* the background tasks added and not yet run (any may run next)
    now,                \* the wall clock, in seconds
    resp,               \* the response to the request handled last: its route,
                        \* its status and the transcript in its body, and the
                        \* history fields repeat (a successful /transcript that
                        \* directly follows a successful /transcript of the same
                        \* videoId with another transcript, or the /summarize
                        \* directly after it, which then keeps that transcript)
                        \* and idle (no background task was waiting when
                        \* /summarize answered)
    called,             \* the external collaborators that request called
    req                 \* that request: its Authorization header, and whether its
                        \* body was a JSON object lacking a field the route requires

splitVars == <<splitIn, splitOut>>

\* The variables of the specifications that call one function on its own.
fnVars == <<splitVars, upsertCall, parseIn, parseOut, evalIn, evalOut>>

svcVars == <<latest_video_id, latest_transcript, dir, history, pending, now,
             resp, called, req>>

vars == <<fnVars, svcVars>>

(***************************************************************************)
(* Bounds of the model.                                                    *)
(***************************************************************************)
MaxLen == 5             \* longest transcript string given to split_transcript
MaxWords == 3           \* largest max_words given to split_transcript
MaxPending == 1         \* most background tasks waiting at once
MaxClock == 1           \* the clock stops advancing here
MaxLines == 3           \* most lines of a markdown given to the parser
MaxQuestions == 1       \* most questions of a questionnaire given to the evaluator
MaxAnswers == 1         \* most answers given to the evaluator

(***************************************************************************)
(* Python string helpers.                                                  *)
(***************************************************************************)
Whitespace == {" ", "\n"}

Min(a, b) == IF a <= b THEN a ELSE b

\* All sequences over alphabet S of length at most n.
SeqsUpTo(S, n) == UNION {[1..k -> S] : k \in 0..n}

\* seq[lo:hi] with Python's clamping of the slice bounds (0-based, hi excluded).
Slice(seq, lo, hi) == SubSeq(seq, Min(lo, Len(seq)) + 1, Min(hi, Len(seq)))

RECURSIVE SplitWsFrom(_, _, _, _)
SplitWsFrom(s, i, cur, acc) ==
    IF i > Len(s)
    THEN IF cur = <<>> THEN acc ELSE Append(acc, cur)
    ELSE IF s[i] \in Whitespace
         THEN SplitWsFrom(s, i + 1, <<>>, IF cur = <<>> THEN acc ELSE Append(acc, cur))
         ELSE SplitWsFrom(s, i + 1, Append(cur, s[i]), acc)

\* str.split() with no argument: the maximal runs of non-whitespace characters.
StrSplit(s) == SplitWsFrom(s, 1, <<>>, <<>>)

RECURSIVE StrJoin(_, _)
\* sep.join(parts)
StrJoin(sep, parts) ==
    IF parts = <<>> THEN <<>>
    ELSE IF Len(parts) = 1 THEN parts[1]
    ELSE parts[1] \o sep \o StrJoin(sep, Tail(parts))

\* math.ceil(a / b) for a >= 0, b > 0
Ceil(a, b) == (a + b - 1) \div b

(***************************************************************************)
(* split_transcript (src/app.py).                                          *)
(***************************************************************************)
\* line 59 written so that no transcript gives zero chunks
num_chunks_at_least_one(n_words, max_words) ==
    IF n_words = 0 THEN 1 ELSE Ceil(n_words, max_words)

\* line 59
num_chunks(n_words, max_words) == Ceil(n_words, max_words)

\* line 63 with the slice one word too long
chunk_content_overlap(words, i, max_words) ==
    StrJoin(<<" ">>, Slice(words, i * max_words, (i + 1) * max_words + 1))

\* line 63
chunk_content(words, i, max_words) ==
    StrJoin(<<" ">>, Slice(words, i * max_words, (i + 1) * max_words))

\* lines 57-66
split_transcript(transcript, max_words) ==
    LET words == StrSplit(transcript)
        n == num_chunks(Len(words), max_words)
    IN  [k \in 1..n |->
            [chunk_id |-> (k - 1) + 1,
             content |-> chunk_content(words, k - 1, max_words)]]

(***************************************************************************)
(* More Python helpers: None, truthiness, strip, startswith, split(sep).   *)
(***************************************************************************)
\* None where a string is expected: no string of characters equals it.
None == <<"None">>

\* None where a video id is expected.
NoneId == "None"

\* bool(s) for s a string or None
Truthy(s) == s # None /\ s # <<>>

RECURSIVE LStrip(_)
LStrip(s) == IF s # <<>> /\ s[1] \in Whitespace THEN LStrip(Tail(s)) ELSE s

RECURSIVE RStrip(_)
RStrip(s) ==
    IF s # <<>> /\ s[Len(s)] \in Whitespace THEN RStrip(SubSeq(s, 1, Len(s) - 1)) ELSE s

\* s.strip()
StrStrip(s) == RStrip(LStrip(s))

\* s.startswith(prefix)
StartsWith(s, prefix) ==
    Len(s) >= Len(prefix) /\ SubSeq(s, 1, Len(prefix)) = prefix

RECURSIVE SplitOnFrom(_, _, _, _, _)
SplitOnFrom(s, sep, i, cur, acc) ==
    IF i > Len(s) THEN Append(acc, cur)
    ELSE IF s[i] = sep THEN SplitOnFrom(s, sep, i + 1, <<>>, Append(acc, cur))
    ELSE SplitOnFrom(s, sep, i + 1, Append(cur, s[i]), acc)

\* s.split(sep) for a one-character sep: empty pieces are kept.
StrSplitOn(s, sep) == SplitOnFrom(s, sep, 1, <<>>, <<>>)

(***************************************************************************)
(* The external collaborators (spec section 6): what they may answer.      *)
(***************************************************************************)
VideoIds == {"v1", "v2"}

\* The letter the transcript provider's text for a video is written in: the
\* transcripts of different videos differ.
VideoLetter(video_id) == IF video_id = "v1" THEN "a" ELSE "b"

\* YouTubeTranscriptApi.get_transcript(video_id): the segment lists it may
\* return; it may also raise.
ProviderSegments(video_id) ==
    LET c == VideoLetter(video_id)
    IN  IF video_id = "v1"
        THEN {<<>>,
              <<[text |-> <<" ", c>>]>>,
              <<[text |-> <<c, " ">>], [text |-> <<"\n", c>>]>>}
        ELSE {<<[text |-> <<c, "\n">>]>>}

\* client.models.generate_content: the text the LLM returns for a prompt that
\* embeds the non-empty `content`; it tells which video's words it was given.
LlmSummary(content) == [kind |-> "llm", of |-> <<content[1]>>]

(***************************************************************************)
(* The pipeline helpers of src/app.py.                                     *)
(***************************************************************************)
API_TOKEN == <<"k">>

DEFAULT_MAX_WORDS == 2000

\* line 197: the provider's segments, each stripped, joined by single spaces
full_transcript_of(transcript_list) ==
    StrJoin(<<" ">>, [i \in 1..Len(transcript_list) |-> StrStrip(transcript_list[i].text)])

\* The bearer-token check every POST route starts with: the status it raises,
\* or 0 when the request may proceed.
auth_status_no_token_check(authorization) ==
    IF ~Truthy(authorization) \/ ~StartsWith(authorization, <<"B", "e", "a", "r", "e", "r", " ">>)
    THEN 401
    ELSE 0

auth_status(authorization) ==
    IF ~Truthy(authorization) \/ ~StartsWith(authorization, <<"B", "e", "a", "r", "e", "r", " ">>)
    THEN 401
    ELSE IF StrSplitOn(authorization, " ")[2] # API_TOKEN THEN 403
    ELSE 0

\* open(file_path, "w") and json.dump: a file of that name is replaced, and
\* the file written is the newest of the directory.
write_file(files, name, data) ==
    Append(SelectSeq(files, LAMBDA f : f.name # name), [name |-> name, data |-> data])

\* save_transcript_chunks: the directory after it has run at time `timestamp`
save_transcript_chunks(files, video_id, transcript, timestamp) ==
    write_file(files,
               [video_id |-> video_id, timestamp |-> timestamp],
               [video_id |-> video_id,
                chunks |-> split_transcript(transcript, DEFAULT_MAX_WORDS)])

\* clear_transcript_folder unlinking nothing
clear_transcript_folder_keeps(files) == files

\* clear_transcript_folder: every file of the directory is a *.json file
clear_transcript_folder(files) == SelectSeq(files, LAMBDA f : FALSE)

\* summarize_transcript, lines 88-90: the text sent to the LLM
combined_content(chunks) ==
    StrJoin(<<"\n", "\n">>, [i \in 1..Len(chunks) |-> chunks[i].content])

\* summarize_transcript: llm_ok is whether the LLM call returns
summarize_transcript(chunks, llm_ok) ==
    LET content == combined_content(chunks)
    IN  IF content = <<>> THEN [kind |-> "no_content", of |-> <<>>]
        ELSE IF llm_ok THEN LlmSummary(content)
        ELSE [kind |-> "failed", of |-> <<>>]

\* fetch_video_title: title_ok is whether yt_dlp returns the video's title
fetch_video_title(video_id, title_ok) ==
    IF title_ok THEN [kind |-> "fetched", video_id |-> video_id]
    ELSE [kind |-> "fallback", video_id |-> video_id]

\* lines 159-164 with the scan-and-replace left out: the record is appended
upsert_always_append(records, transcript_data) == Append(records, transcript_data)

\* lines 159-164: replace the first record of that videoId, or append
upsert(records, transcript_data) ==
    LET hits == {i \in 1..Len(records) : records[i].videoId = transcript_data.videoId}
    IN  IF hits # {}
        THEN LET existing_index == CHOOSE i \in hits : \A j \in hits : i <= j
             IN  [records EXCEPT ![existing_index] = transcript_data]
        ELSE Append(records, transcript_data)

\* update_history_with_title_and_summary: history.json after it has run
update_history_with_title_and_summary(records, video_id, title, summary, transcript, timestamp) ==
    upsert(records,
           [videoId |-> video_id, timestamp |-> timestamp, transcript |-> transcript,
            summary |-> summary, title |-> title])

(***************************************************************************)
(* The route handlers: what each answers and what it leaves behind.        *)
(***************************************************************************)
\* What YouTubeTranscriptApi.get_transcript may do for a video id: raise, or
\* return one of the video's segment lists.
ProviderOutcomes(video_id) ==
    {[raises |-> TRUE, transcript_list |-> <<>>]}
    \cup (IF video_id \in VideoIds
          THEN {[raises |-> FALSE, transcript_list |-> l] : l \in ProviderSegments(video_id)}
          ELSE {})

\* get_transcript with line 198 assigning a local: the global transcript stays
get_transcript_local_transcript(authorization, body, provider) ==
    IF auth_status(authorization) # 0
    THEN [status |-> auth_status(authorization), called |-> {},
          latest_video_id |-> latest_video_id, latest_transcript |-> latest_transcript,
          tasks |-> {}]
    ELSE IF body.kind # "object"
    THEN [status |-> 500, called |-> {},
          latest_video_id |-> latest_video_id, latest_transcript |-> latest_transcript,
          tasks |-> {}]
    ELSE IF body.videoId \in {NoneId, ""}
    THEN [status |-> 400, called |-> {},
          latest_video_id |-> latest_video_id, latest_transcript |-> latest_transcript,
          tasks |-> {}]
    ELSE IF provider.raises
    THEN [status |-> 500, called |-> {"transcript_provider"},
          latest_video_id |-> body.videoId, latest_transcript |-> latest_transcript,
          tasks |-> {}]
    ELSE [status |-> 200, called |-> {"transcript_provider"},
          latest_video_id |-> body.videoId,
          latest_transcript |-> latest_transcript,
          tasks |-> {[video_id |-> body.videoId,
                      full_transcript |-> full_transcript_of(provider.transcript_list)]}]

\* get_transcript (POST /transcript): the response status, the collaborators
\* called, the globals it leaves and the background tasks it adds
get_transcript(authorization, body, provider) ==
    IF auth_status(authorization) # 0
    THEN \* lines 178-183: HTTPException raised before the try block
         [status |-> auth_status(authorization), called |-> {},
          latest_video_id |-> latest_video_id, latest_transcript |-> latest_transcript,
          tasks |-> {}]
    ELSE IF body.kind # "object"
    THEN \* lines 186-187 raise, line 209 answers 500
         [status |-> 500, called |-> {},
          latest_video_id |-> latest_video_id, latest_transcript |-> latest_transcript,
          tasks |-> {}]
    ELSE IF body.videoId \in {NoneId, ""}
    THEN \* lines 188-192
         [status |-> 400, called |-> {},
          latest_video_id |-> latest_video_id, latest_transcript |-> latest_transcript,
          tasks |-> {}]
    ELSE IF provider.raises
    THEN \* line 194 has run, line 196 raises, line 209 answers 500
         [status |-> 500, called |-> {"transcript_provider"},
          latest_video_id |-> body.videoId, latest_transcript |-> latest_transcript,
          tasks |-> {}]
    ELSE \* lines 194-207
         [status |-> 200, called |-> {"transcript_provider"},
          latest_video_id |-> body.videoId,
          latest_transcript |-> full_transcript_of(provider.transcript_list),
          tasks |-> {[video_id |-> body.videoId,
                      full_transcript |-> full_transcript_of(provider.transcript_list)]}]

\* summarize_transcript_route (POST /summarize): the response status, the
\* collaborators called, and the directory and history.json it leaves
summarize_transcript_route(authorization, llm_ok, title_ok) ==
    IF auth_status(authorization) # 0
    THEN \* lines 221-226
         [status |-> auth_status(authorization), called |-> {},
          dir |-> dir, history |-> history]
    ELSE IF dir = <<>>
    THEN \* lines 230-235
         [status |-> 404, called |-> {}, dir |-> dir, history |-> history]
    ELSE LET latest_file == dir[Len(dir)]      \* the newest by modification time
             chunks == latest_file.data.chunks
             final_summary == summarize_transcript(chunks, llm_ok)
             has_id == latest_video_id \notin {NoneId, ""}
             title == IF has_id THEN fetch_video_title(latest_video_id, title_ok)
                      ELSE [kind |-> "unknown", video_id |-> NoneId]
         IN  [status |-> 200,
              called |-> (IF combined_content(chunks) # <<>> THEN {"llm"} ELSE {})
                         \cup (IF has_id THEN {"title_provider"} ELSE {}),
              dir |-> clear_transcript_folder(dir),
              history |-> IF has_id /\ Truthy(latest_transcript)
                          THEN update_history_with_title_and_summary(
                                   history, latest_video_id, title, final_summary,
                                   latest_transcript, now)
                          ELSE history]

(***************************************************************************)
(* The requests and the other steps.                                       *)
(***************************************************************************)
Bearer(token) == <<"B", "e", "a", "r", "e", "r", " ">> \o token

\* The Authorization headers a request may carry (None: no header).
Headers ==
    {None, <<>>, <<"k">>, Bearer(<<>>), Bearer(<<"k">>), Bearer(<<"x">>),
     Bearer(<<"k", " ", "k">>)}

\* The header of a client that holds the API token.
TokenHeaders == {Bearer(API_TOKEN)}

\* The bodies of POST /transcript: not JSON, JSON that is no object, or an
\* object whose videoId is missing, empty or one of `videos`.
TranscriptBodies(videos) ==
    {[kind |-> "not_json", videoId |-> NoneId], [kind |-> "list", videoId |-> NoneId],
     [kind |-> "object", videoId |-> NoneId], [kind |-> "object", videoId |-> ""]}
    \cup {[kind |-> "object", videoId |-> v] : v \in videos}

\* POST /transcript
PostTranscript(headers, bodies) ==
    \E authorization \in headers, body \in bodies :
        \E provider \in ProviderOutcomes(body.videoId) :
            LET r == get_transcript(authorization, body, provider)
            IN  /\ Cardinality(pending \cup r.tasks) <= MaxPending
                /\ latest_video_id' = r.latest_video_id
                /\ latest_transcript' = r.latest_transcript
                /\ pending' = pending \cup r.tasks
                /\ resp' = [route |-> "transcript", status |-> r.status,
                            repeat |-> /\ r.status = 200
                                       /\ resp.route = "transcript" /\ resp.status = 200
                                       /\ r.latest_video_id = latest_video_id
                                       /\ full_transcript_of(provider.transcript_list)
                                              # resp.transcript,
                            idle |-> FALSE,
                            transcript |-> IF r.status = 200
                                           THEN full_transcript_of(provider.transcript_list)
                                           ELSE None]
                /\ called' = r.called
                /\ req' = [authorization |-> authorization,
                           lacking |-> body.kind = "object" /\ body.videoId = NoneId]
                /\ UNCHANGED <<dir, history, now>>

\* A background task runs: save_transcript_chunks
SaveChunks ==
    \E task \in pending :
        /\ dir' = save_transcript_chunks(dir, task.video_id, task.full_transcript, now)
        /\ pending' = pending \ {task}
        /\ UNCHANGED <<latest_video_id, latest_transcript, history, now, resp, called, req>>

\* POST /summarize
PostSummarize(headers, llm_outcomes, title_outcomes) ==
    \E authorization \in headers, llm_ok \in llm_outcomes, title_ok \in title_outcomes :
        LET r == summarize_transcript_route(authorization, llm_ok, title_ok)
        IN  /\ dir' = r.dir
            /\ history' = r.history
            /\ resp' = [route |-> "summarize", status |-> r.status,
                        repeat |-> resp.route = "transcript" /\ resp.repeat,
                        idle |-> pending = {},
                        transcript |-> IF resp.route = "transcript" THEN resp.transcript
                                       ELSE None]
            /\ called' = r.called
            /\ req' = [authorization |-> authorization, lacking |-> FALSE]
            /\ UNCHANGED <<latest_video_id, latest_transcript, pending, now>>

\* A second passes.
Tick ==
    /\ now < MaxClock
    /\ now' = now + 1
    /\ UNCHANGED <<latest_video_id, latest_transcript, dir, history, pending, resp, called,
                   req>>

\* The process is restarted: the globals are set anew (lines 50-51), the
\* files stay, the background tasks not yet run are lost.
Restart ==
    /\ latest_video_id' = NoneId
    /\ latest_transcript' = None
    /\ pending' = {}
    /\ resp' = [route |-> "none", status |-> 0, repeat |-> FALSE, idle |-> FALSE,
             transcript |-> None]
    /\ called' = {}
    /\ req' = [authorization |-> None, lacking |-> FALSE]
    /\ UNCHANGED <<dir, history, now>>

SvcInit ==
    /\ latest_video_id = NoneId
    /\ latest_transcript = None
    /\ dir = <<>>
    /\ history = <<>>
    /\ pending = {}
    /\ now = 0
    /\ resp = [route |-> "none", status |-> 0, repeat |-> FALSE, idle |-> FALSE,
             transcript |-> None]
    /\ called = {}
    /\ req = [authorization |-> None, lacking |-> FALSE]

SplitIdle ==
    /\ splitIn = [transcript |-> <<>>, max_words |-> 1]
    /\ splitOut = [done |-> FALSE, chunks |-> <<>>]

UpsertIdle ==
    upsertCall = [done |-> FALSE, before |-> <<>>, video_id |-> NoneId,
                  title |-> [kind |-> "unknown", video_id |-> NoneId],
                  summary |-> [kind |-> "no_content", of |-> <<>>],
                  transcript |-> None, timestamp |-> 0]

ParseIdle ==
    /\ parseIn = <<>>
    /\ parseOut = [done |-> FALSE, raised |-> "", questions |-> <<>>]

EvalIdle ==
    /\ evalIn = [questionnaire |-> [title |-> "t"], answers |-> <<>>,
                 llm |-> [kind |-> "raises", text |-> <<>>]]
    /\ evalOut = [done |-> FALSE, raised |-> "", called |-> {}, result |-> <<>>]

FnIdle == SplitIdle /\ UpsertIdle /\ ParseIdle /\ EvalIdle

(***************************************************************************)
(* Spec: the transcript-to-summary pipeline for two videos, driven by a    *)
(* client that holds the API token.                                        *)
(***************************************************************************)
Init == SvcInit /\ FnIdle

Next ==
    \/ PostTranscript(TokenHeaders, TranscriptBodies(VideoIds) \ TranscriptBodies({})) /\ UNCHANGED fnVars
    \/ SaveChunks /\ UNCHANGED fnVars
    \/ PostSummarize(TokenHeaders, {TRUE}, {TRUE}) /\ UNCHANGED fnVars

Spec == Init /\ [][Next]_vars

(***************************************************************************)
(* SeqSpec: the same requests run one at a time: a request is taken only   *)
(* once the background task of the one before has run.                     *)
(***************************************************************************)
SeqNext ==
    \/ /\ pending = {}
       /\ PostTranscript(TokenHeaders, TranscriptBodies(VideoIds) \ TranscriptBodies({}))
       /\ UNCHANGED fnVars
    \/ SaveChunks /\ UNCHANGED fnVars
    \/ /\ pending = {}
       /\ PostSummarize(TokenHeaders, {TRUE}, {TRUE})
       /\ UNCHANGED fnVars

SeqSpec == Init /\ [][SeqNext]_vars

SplitAlphabet == {"a", "b", " ", "\n"}

SplitInit ==
    /\ splitIn \in [transcript : SeqsUpTo(SplitAlphabet, MaxLen),
                    max_words : 1..MaxWords]
    /\ splitOut = [done |-> FALSE, chunks |-> <<>>]
    /\ UpsertIdle
    /\ ParseIdle
    /\ EvalIdle
    /\ SvcInit

CallSplit ==
    /\ ~splitOut.done
    /\ splitOut' = [done |-> TRUE,
                    chunks |-> split_transcript(splitIn.transcript, splitIn.max_words)]
    /\ UNCHANGED <<splitIn, upsertCall, parseIn, parseOut, evalIn, evalOut, svcVars>>

SplitNext == CallSplit

SplitSpec == SplitInit /\ [][SplitNext]_vars

(***************************************************************************)
(* parse_questionnaire_response (src/questionnaire_generator.py).  A line  *)
(* is a sequence of tokens, each standing for the characters it spells;    *)
(* the literals the parser looks for are tokens of their own.              *)
(***************************************************************************)
MCQ_HEADER == "### Multiple Choice Questions"
SHORT_HEADER == "### Short Answer Questions"
LONG_HEADER == "### Long Answer Questions"

\* The tokens that spell one character.
OneChar == {"a", "A", "1", " ", ")", "x"}

Digits == {"1"}

\* c.lower()
Lower(c) == IF c = "A" THEN "a" ELSE c

\* s.lower()
StrLower(s) == [i \in 1..Len(s) |-> Lower(s[i])]

\* option_pattern.match(line), line 42: "- (", any one character, ")", then
\* \s* and at least one more character
OptionMatches(line) ==
    /\ Len(line) >= 4
    /\ line[1] = "- ("
    /\ line[2] \in OneChar
    /\ line[3] = ")"

\* the two groups of the match: \s* is greedy and (.+) takes the rest
OptionGroups(line) ==
    LET rest == SubSeq(line, 4, Len(line))
        spaces == CHOOSE n \in 0..(Len(rest) - 1) :
                     /\ \A i \in 1..n : rest[i] \in Whitespace
                     /\ n = Len(rest) - 1 \/ rest[n + 1] \notin Whitespace
    IN  [opt_id |-> <<line[2]>>, opt_text |-> SubSeq(rest, spaces + 1, Len(rest))]

RECURSIVE DropMarkers(_)
\* re.sub(r"\*\*Q\d+:\*\*", "", line), line 62
DropMarkers(line) ==
    IF line = <<>> THEN <<>>
    ELSE IF line[1] = "**Q"
         THEN LET digits == CHOOSE n \in 0..(Len(line) - 1) :
                               /\ \A i \in 2..(n + 1) : line[i] \in Digits
                               /\ n = Len(line) - 1 \/ line[n + 2] \notin Digits
              IN  IF digits >= 1 /\ Len(line) >= digits + 2 /\ line[digits + 2] = ":**"
                  THEN DropMarkers(SubSeq(line, digits + 3, Len(line)))
                  ELSE <<line[1]>> \o DropMarkers(Tail(line))
         ELSE <<line[1]>> \o DropMarkers(Tail(line))

\* The parser's locals before the first line (lines 39-43); current_question
\* is the empty sequence for {} and else holds the one question dict.
ParseStart ==
    [raised |-> "", questions |-> <<>>, section |-> "None", current_question |-> <<>>,
     question_counter |-> 1]

\* One turn of the loop of lines 46-73 on the line `raw`.
parse_line(st, raw) ==
    LET line == StrStrip(raw)
    IN  IF StartsWith(line, <<MCQ_HEADER>>) THEN [st EXCEPT !.section = "mcq"]
        ELSE IF StartsWith(line, <<SHORT_HEADER>>) THEN [st EXCEPT !.section = "short"]
        ELSE IF StartsWith(line, <<LONG_HEADER>>) THEN [st EXCEPT !.section = "long"]
        ELSE IF StartsWith(line, <<"**Q">>)
        THEN [st EXCEPT
                !.questions = IF st.current_question # <<>>
                              THEN Append(st.questions, st.current_question[1])
                              ELSE st.questions,
                !.current_question =
                    <<[id |-> <<"q", st.question_counter>>,
                       question |-> StrStrip(DropMarkers(line)),
                       type |-> st.section,
                       required |-> TRUE,
                       options |-> [isNone |-> st.section # "mcq", items |-> <<>>]]>>,
                !.question_counter = st.question_counter + 1]
        ELSE IF st.section = "mcq" /\ OptionMatches(line)
        THEN IF st.current_question = <<>>
             THEN \* {}["options"], line 70
                  [st EXCEPT !.raised = "KeyError"]
             ELSE IF st.current_question[1].options.isNone
             THEN \* None.append, line 70
                  [st EXCEPT !.raised = "AttributeError"]
             ELSE LET g == OptionGroups(line)
                      q == st.current_question[1]
                      option == [id |-> q.id \o StrLower(StrStrip(g.opt_id)),
                                 text |-> StrStrip(g.opt_text)]
                  IN  [st EXCEPT !.current_question =
                          <<[q EXCEPT !.options.items = Append(@, option)]>>]
        ELSE st

RECURSIVE ParseFrom(_, _, _)
ParseFrom(st, markdown, i) ==
    IF st.raised # "" \/ i > Len(markdown) THEN st
    ELSE ParseFrom(parse_line(st, markdown[i]), markdown, i + 1)

\* parse_questionnaire_response: the exception it raises ("" for none) and
\* the questions of the dict it returns
parse_questionnaire_response(markdown) ==
    LET st == ParseFrom(ParseStart, markdown, 1)
    IN  IF st.raised # "" THEN [raised |-> st.raised, questions |-> <<>>]
        ELSE [raised |-> "",
              questions |-> IF st.current_question # <<>>
                            THEN Append(st.questions, st.current_question[1])
                            ELSE st.questions]

\* The lines the markdown of the model is made of.
MarkdownLines ==
    {<<>>,
     <<"x">>,
     <<MCQ_HEADER>>,
     <<" ", SHORT_HEADER, " ">>,
     <<LONG_HEADER>>,
     <<"**Q", "1", ":**", " ", "x">>,
     <<"- (", "a", ")", " ", "x">>,
     <<" ", "- (", "A", ")", "x", " ">>,
     <<"- (", "a", ")">>}

ParseInit ==
    /\ parseIn \in SeqsUpTo(MarkdownLines, MaxLines)
    /\ parseOut = [done |-> FALSE, raised |-> "", questions |-> <<>>]
    /\ SplitIdle
    /\ UpsertIdle
    /\ EvalIdle
    /\ SvcInit

CallParse ==
    /\ ~parseOut.done
    /\ parseOut' = [done |-> TRUE] @@ parse_questionnaire_response(parseIn)
    /\ UNCHANGED <<parseIn, splitVars, upsertCall, evalIn, evalOut, svcVars>>

ParseNext == CallParse

ParseSpec == ParseInit /\ [][ParseNext]_vars

(***************************************************************************)
(* evaluate_answers (src/questionnaire_evaluator.py).  A dict is a         *)
(* function on its keys; d[k] raises KeyError when k is no key of d.  The  *)
(* LLM's text is a sequence of tokens: "[", "]", ",", "o" for a JSON       *)
(* object and "x" for text that is no JSON.                                *)
(***************************************************************************)
HasKey(d, k) == k \in DOMAIN d

RECURSIVE AnswerFrom(_, _, _)
\* next((a["answer"] for a in answers if a["questionId"] == q["id"]), ""),
\* line 39, from the i-th answer on
AnswerFrom(q, answers, i) ==
    IF i > Len(answers) THEN [raised |-> "", ans |-> <<>>]
    ELSE LET a == answers[i]
         IN  IF ~HasKey(a, "questionId") \/ ~HasKey(q, "id")
             THEN [raised |-> "KeyError", ans |-> <<>>]
             ELSE IF a["questionId"] = q["id"]
             THEN IF HasKey(a, "answer") THEN [raised |-> "", ans |-> a["answer"]]
                  ELSE [raised |-> "KeyError", ans |-> <<>>]
             ELSE AnswerFrom(q, answers, i + 1)

\* lines 41-43: the option lines of a question
OptionLines(q) ==
    IF q["type"] = "mcq" /\ HasKey(q, "options") /\ q["options"] # <<>>
    THEN IF \E j \in 1..Len(q["options"]) :
                ~HasKey(q["options"][j], "id") \/ ~HasKey(q["options"][j], "text")
         THEN [raised |-> "KeyError", lines |-> <<>>]
         ELSE [raised |-> "",
               lines |-> [j \in 1..Len(q["options"]) |->
                             <<"-", q["options"][j]["id"], q["options"][j]["text"]>>]]
    ELSE [raised |-> "", lines |-> <<>>]

\* lines 39-44: what one question adds to the prompt
QuestionLines(q, answers) ==
    LET found == AnswerFrom(q, answers, 1)
    IN  IF found.raised # "" THEN [raised |-> found.raised, lines |-> <<>>]
        ELSE IF ~HasKey(q, "question") \/ ~HasKey(q, "type")
        THEN [raised |-> "KeyError", lines |-> <<>>]
        ELSE IF OptionLines(q).raised # ""
        THEN [raised |-> OptionLines(q).raised, lines |-> <<>>]
        ELSE [raised |-> "",
              lines |-> <<<<"Q", q["question"]>>>> \o OptionLines(q).lines
                        \o <<<<"A", found.ans>>>>]

RECURSIVE PromptFrom(_, _, _, _)
PromptFrom(questions, answers, i, prompt) ==
    IF i > Len(questions) THEN [raised |-> "", prompt |-> prompt]
    ELSE LET added == QuestionLines(questions[i], answers)
         IN  IF added.raised # "" THEN [raised |-> added.raised, prompt |-> <<>>]
             ELSE PromptFrom(questions, answers, i + 1, prompt \o added.lines)

\* generate_evaluation_prompt: the exception it raises ("" for none) and the
\* lines it adds to the fixed head of the prompt
generate_evaluation_prompt(questions, answers) == PromptFrom(questions, answers, 1, <<>>)

\* re.search(r"\[.*\]", text, re.DOTALL), line 58: from the first "[" to the
\* last "]" behind it; the empty sequence when there is no such pair
BracketMatch(text) ==
    LET opens == {i \in 1..Len(text) : text[i] = "["}
        closes == {i \in 1..Len(text) : text[i] = "]"}
    IN  IF \E i \in opens, j \in closes : i < j
        THEN LET first == CHOOSE i \in opens : \A k \in opens : i <= k
                 last == CHOOSE j \in closes : \A k \in closes : k <= j
             IN  SubSeq(text, first, last)
        ELSE <<>>

RECURSIVE JsonValueEnd(_, _), JsonElementsEnd(_, _)
\* json.loads: the index behind the JSON value that starts at index i, 0 when
\* none starts there
JsonValueEnd(t, i) ==
    IF i > Len(t) THEN 0
    ELSE IF t[i] = "o" THEN i + 1
    ELSE IF t[i] = "["
    THEN IF i + 1 <= Len(t) /\ t[i + 1] = "]" THEN i + 2 ELSE JsonElementsEnd(t, i + 1)
    ELSE 0

JsonElementsEnd(t, i) ==
    LET j == JsonValueEnd(t, i)
    IN  IF j = 0 \/ j > Len(t) THEN 0
        ELSE IF t[j] = "," THEN JsonElementsEnd(t, j + 1)
        ELSE IF t[j] = "]" THEN j + 1
        ELSE 0

\* json.loads(t) returns (TRUE) or raises JSONDecodeError (FALSE)
JsonLoads(t) == JsonValueEnd(t, 1) = Len(t) + 1

\* evaluate_answers: the exception it raises ("" for none), the collaborators
\* it calls and the list it returns (spelled as the text it was loaded from)
evaluate_answers(questionnaire, answers, llm) ==
    IF ~HasKey(questionnaire, "questions")
    THEN \* questionnaire["questions"], line 49, outside the try block
         [raised |-> "KeyError", called |-> {}, result |-> <<>>]
    ELSE IF generate_evaluation_prompt(questionnaire["questions"], answers).raised # ""
    THEN \* line 49, outside the try block
         [raised |-> generate_evaluation_prompt(questionnaire["questions"], answers).raised,
          called |-> {}, result |-> <<>>]
    ELSE IF llm.kind = "raises"
    THEN \* lines 52-55 raise, lines 61-63
         [raised |-> "", called |-> {"llm"}, result |-> <<>>]
    ELSE IF llm.kind = "no_text"
    THEN \* response.text is None: re.search raises TypeError, lines 61-63
         [raised |-> "", called |-> {"llm"}, result |-> <<>>]
    ELSE IF BracketMatch(llm.text) = <<>>
    THEN \* line 59, no match
         [raised |-> "", called |-> {"llm"}, result |-> <<>>]
    ELSE IF JsonLoads(BracketMatch(llm.text))
    THEN [raised |-> "", called |-> {"llm"}, result |-> BracketMatch(llm.text)]
    ELSE \* json.loads raises, lines 61-63
         [raised |-> "", called |-> {"llm"}, result |-> <<>>]

\* The questions, answers and LLM behaviours of the model.
EvalQuestions ==
    {[id |-> "q1", question |-> <<"x">>, type |-> "short"],
     [id |-> "q1", question |-> <<"x">>, type |-> "mcq",
      options |-> <<[id |-> "q1a", text |-> <<"x">>]>>],
     [id |-> "q1", question |-> <<"x">>, type |-> "mcq", options |-> <<[id |-> "q1a"]>>],
     [id |-> "q1", type |-> "short"],
     [id |-> "q1", question |-> <<"x">>],
     [question |-> <<"x">>, type |-> "short"]}

EvalAnswerDicts ==
    {[questionId |-> "q1", answer |-> <<"x">>],
     [questionId |-> "q2", answer |-> <<"x">>],
     [questionId |-> "q1"],
     [answer |-> <<"x">>]}

Questionnaires ==
    {[title |-> "t"]}
    \cup {[title |-> "t", questions |-> qs] : qs \in SeqsUpTo(EvalQuestions, MaxQuestions)}

LlmTexts ==
    {<<>>, <<"x">>, <<"[", "]">>, <<"[", "o", "]">>, <<"x", "[", "o", ",", "o", "]", "x">>,
     <<"[", "x", "]">>, <<"]", "[">>, <<"[", "o", "]", "x", "[", "o", "]">>,
     <<"[", "[", "o", "]", ",", "o", "]">>}

EvalLlmOutcomes ==
    {[kind |-> "raises", text |-> <<>>], [kind |-> "no_text", text |-> <<>>]}
    \cup {[kind |-> "text", text |-> t] : t \in LlmTexts}

EvalInit ==
    /\ evalIn \in [questionnaire : Questionnaires,
                   answers : SeqsUpTo(EvalAnswerDicts, MaxAnswers),
                   llm : EvalLlmOutcomes]
    /\ evalOut = [done |-> FALSE, raised |-> "", called |-> {}, result |-> <<>>]
    /\ SplitIdle
    /\ UpsertIdle
    /\ ParseIdle
    /\ SvcInit

CallEvaluate ==
    /\ ~evalOut.done
    /\ evalOut' = [done |-> TRUE]
                  @@ evaluate_answers(evalIn.questionnaire, evalIn.answers, evalIn.llm)
    /\ UNCHANGED <<evalIn, splitVars, upsertCall, parseIn, parseOut, svcVars>>

EvalNext == CallEvaluate

EvalSpec == EvalInit /\ [][EvalNext]_vars

(***************************************************************************)
(* POST /questionnaire and POST /evaluate (src/app.py), and ApiSpec: the   *)
(* four routes called with any header and any body, for one video.         *)
(***************************************************************************)
EmptyDict == [k \in {} |-> TRUE]

\* generate_questionnaire: whether it returns {"error": ...}, and else the
\* questions of the questionnaire
generate_questionnaire(summary, llm) ==
    IF llm.kind = "raises"
    THEN \* lines 89-92 raise, lines 95-97
         [error |-> TRUE, questions |-> <<>>]
    ELSE IF parse_questionnaire_response(llm.markdown).raised # ""
    THEN \* line 94 raises, lines 95-97
         [error |-> TRUE, questions |-> <<>>]
    ELSE [error |-> FALSE, questions |-> parse_questionnaire_response(llm.markdown).questions]

\* generate_questionnaire_route (POST /questionnaire): the response status
\* and the collaborators called
generate_questionnaire_route(authorization, body, llm) ==
    IF auth_status(authorization) # 0
    THEN \* lines 277-282
         [status |-> auth_status(authorization), called |-> {}]
    ELSE IF body.kind # "object"
    THEN \* lines 285-286 raise, line 299 answers 500
         [status |-> 500, called |-> {}]
    ELSE IF StrStrip(IF HasKey(body.data, "summary") THEN body.data["summary"] ELSE <<>>) = <<>>
    THEN \* line 289 raises HTTPException(400) inside the try block; it is an
         \* Exception, so line 297 catches it and line 299 answers 500
         [status |-> 500, called |-> {}]
    ELSE IF generate_questionnaire(StrStrip(body.data["summary"]), llm).error
    THEN \* line 293 raises, line 299 answers 500
         [status |-> 500, called |-> {"llm"}]
    ELSE [status |-> 200, called |-> {"llm"}]

\* evaluate_questionnaire_route (POST /evaluate): the response status and the
\* collaborators called
evaluate_questionnaire_route(authorization, body, llm) ==
    IF auth_status(authorization) # 0
    THEN \* lines 305-310
         [status |-> auth_status(authorization), called |-> {}]
    ELSE IF body.kind # "object"
    THEN \* lines 313-314 raise, line 327 answers 500
         [status |-> 500, called |-> {}]
    ELSE IF \/ ~HasKey(body.data, "questionnaire") \/ body.data["questionnaire"] = EmptyDict
            \/ ~HasKey(body.data, "answers") \/ body.data["answers"] = <<>>
    THEN \* line 318 raises HTTPException(400) inside the try block; line 325
         \* catches it and line 327 answers 500
         [status |-> 500, called |-> {}]
    ELSE LET evaluation == evaluate_answers(body.data["questionnaire"],
                                            body.data["answers"], llm)
         IN  IF evaluation.raised # ""
             THEN \* line 320 raises, line 327 answers 500
                  [status |-> 500, called |-> evaluation.called]
             ELSE [status |-> 200, called |-> evaluation.called]

\* The bodies of POST /questionnaire.
QuestionnaireBodies ==
    {[kind |-> "not_json", data |-> EmptyDict]}
    \cup {[kind |-> "object", data |-> d] :
             d \in {EmptyDict, [summary |-> <<>>], [summary |-> <<" ">>],
                    [summary |-> <<"s">>]}}

\* What the LLM does for generate_questionnaire.
GenLlmOutcomes ==
    {[kind |-> "raises", markdown |-> <<>>],
     [kind |-> "text",
      markdown |-> <<<<MCQ_HEADER>>, <<"**Q", "1", ":**", " ", "x">>,
                     <<"- (", "a", ")", " ", "x">>>>],
     [kind |-> "text", markdown |-> <<<<MCQ_HEADER>>, <<"- (", "a", ")", " ", "x">>>>]}

\* The bodies of POST /evaluate.
EvaluateBodies ==
    LET questionnaire == [title |-> "t",
                          questions |-> <<[id |-> "q1", question |-> <<"x">>,
                                           type |-> "short"]>>]
        answers == <<[questionId |-> "q1", answer |-> <<"x">>]>>
    IN  {[kind |-> "not_json", data |-> EmptyDict]}
        \cup {[kind |-> "object", data |-> d] :
                 d \in {EmptyDict,
                        [questionnaire |-> questionnaire],
                        [answers |-> answers],
                        [questionnaire |-> EmptyDict, answers |-> answers],
                        [questionnaire |-> questionnaire, answers |-> <<>>],
                        [questionnaire |-> questionnaire, answers |-> answers],
                        [questionnaire |-> [title |-> "t"], answers |-> answers]}}

\* What the LLM does for evaluate_answers behind the route.
RouteEvalOutcomes ==
    {[kind |-> "raises", text |-> <<>>], [kind |-> "text", text |-> <<"[", "o", "]">>]}

\* POST /questionnaire
PostQuestionnaire(headers, bodies, llm_outcomes) ==
    \E authorization \in headers, body \in bodies, llm \in llm_outcomes :
        LET r == generate_questionnaire_route(authorization, body, llm)
        IN  /\ resp' = [route |-> "questionnaire", status |-> r.status, repeat |-> FALSE,
                        idle |-> FALSE, transcript |-> None]
            /\ called' = r.called
            /\ req' = [authorization |-> authorization,
                       lacking |-> /\ body.kind = "object"
                                   /\ (HasKey(body.data, "summary")
                                          => body.data["summary"] = <<>>)]
            /\ UNCHANGED <<latest_video_id, latest_transcript, dir, history, pending, now>>

\* POST /evaluate
PostEvaluate(headers, bodies, llm_outcomes) ==
    \E authorization \in headers, body \in bodies, llm \in llm_outcomes :
        LET r == evaluate_questionnaire_route(authorization, body, llm)
        IN  /\ resp' = [route |-> "evaluate", status |-> r.status, repeat |-> FALSE,
                        idle |-> FALSE, transcript |-> None]
            /\ called' = r.called
            /\ req' = [authorization |-> authorization,
                       lacking |-> /\ body.kind = "object"
                                   /\ \/ ~HasKey(body.data, "questionnaire")
                                      \/ ~HasKey(body.data, "answers")]
            /\ UNCHANGED <<latest_video_id, latest_transcript, dir, history, pending, now>>

ApiVideoIds == {"v2"}

ApiNext ==
    \/ PostTranscript(Headers, TranscriptBodies(ApiVideoIds)) /\ UNCHANGED fnVars
    \/ SaveChunks /\ UNCHANGED fnVars
    \/ PostSummarize(Headers, BOOLEAN, BOOLEAN) /\ UNCHANGED fnVars
    \/ PostQuestionnaire(Headers, QuestionnaireBodies, GenLlmOutcomes) /\ UNCHANGED fnVars
    \/ PostEvaluate(Headers, EvaluateBodies, RouteEvalOutcomes) /\ UNCHANGED fnVars
    \/ Restart /\ UNCHANGED fnVars

ApiSpec == Init /\ [][ApiNext]_vars

(***************************************************************************)
(* HistSpec: update_history_with_title_and_summary called by a single      *)
(* writer, again and again, on the history.json its own calls have left.   *)
(***************************************************************************)
HistVideoIds == {"v1", "v2", "v3"}

HistTranscripts == {<<"a">>, <<"b">>}

CallUpsert ==
    \E video_id \in HistVideoIds, transcript \in HistTranscripts :
        LET title == fetch_video_title(video_id, TRUE)
            summary == LlmSummary(transcript)
        IN  /\ history' = update_history_with_title_and_summary(
                              history, video_id, title, summary, transcript, now)
            /\ upsertCall' = [done |-> TRUE, before |-> history, video_id |-> video_id,
                              title |-> title, summary |-> summary,
                              transcript |-> transcript, timestamp |-> now]
            /\ UNCHANGED <<latest_video_id, latest_transcript, dir, pending, now, resp,
                           called, req, splitVars, parseIn, parseOut, evalIn, evalOut>>

HistNext ==
    \/ CallUpsert
    \/ Tick /\ UNCHANGED fnVars

HistSpec == Init /\ [][HistNext]_vars

(***************************************************************************)
(* Reference notions the split_transcript claims are stated with; they do  *)
(* not go through StrSplit or StrJoin.                                     *)
(***************************************************************************)
\* The positions at which a word of s starts.
WordStarts(s) ==
    {i \in 1..Len(s) : s[i] \notin Whitespace /\ (i = 1 \/ s[i - 1] \in Whitespace)}

WordCount(s) == Cardinality(WordStarts(s))

RECURSIVE Collapse(_, _, _)
\* s from position i on, every run of whitespace replaced by one space and
\* the leading run dropped; out is what has been produced so far.
Collapse(s, i, out) ==
    IF i > Len(s) THEN out
    ELSE IF s[i] \notin Whitespace THEN Collapse(s, i + 1, Append(out, s[i]))
    ELSE IF out = <<>> \/ out[Len(out)] = " " THEN Collapse(s, i + 1, out)
    ELSE Collapse(s, i + 1, Append(out, " "))

\* The whitespace-normalized form of s.
NormalizeWs(s) ==
    LET c == Collapse(s, 1, <<>>)
    IN  IF c # <<>> /\ c[Len(c)] = " " THEN SubSeq(c, 1, Len(c) - 1) ELSE c

\* C1: for every transcript T and max_words m > 0, split_transcript(T, m)
\* returns exactly ceil(word_count(T)/m) chunks, numbered 1..len(chunks) in
\* order, chunk i holds the words at offsets [i*m, (i+1)*m), and the chunk
\* contents joined with single spaces are the whitespace-normalized T.
C1_SplitChunks ==
    splitOut.done =>
        LET T == splitIn.transcript
            m == splitIn.max_words
            chunks == splitOut.chunks
            n == Len(chunks)
            wc == WordCount(T)
            norm == NormalizeWs(T)
            \* the words of the normalized form, cut at its single spaces
            cuts == {0} \cup {i \in 1..Len(norm) : norm[i] = " "} \cup {Len(norm) + 1}
            wordAt(j) ==
                LET lo == CHOOSE c \in cuts : Cardinality({d \in cuts : d < c}) = j - 1
                    hi == CHOOSE c \in cuts : Cardinality({d \in cuts : d < c}) = j
                IN  SubSeq(norm, lo + 1, hi - 1)
            expected(k) ==
                LET first == (k - 1) * m + 1
                    last == Min(k * m, wc)
                IN  StrJoin(<<" ">>, [j \in 1..(last - first + 1) |-> wordAt(first + j - 1)])
        IN  /\ n * m >= wc
            /\ (n - 1) * m < wc \/ n = 0
            /\ \A k \in 1..n : chunks[k].chunk_id = k
            /\ \A k \in 1..n : chunks[k].content = expected(k)
            /\ StrJoin(<<" ">>, [k \in 1..n |-> chunks[k].content]) = norm

\* C1 witness: "a b a" (irregular whitespace aside) split by 2 words gives
\* the chunks {1, "a b"} and {2, "a"}.
C1_Witness ==
    /\ splitOut.done
    /\ splitIn.max_words = 2
    /\ splitIn.transcript = <<"a", "\n", "b", " ", "a">>
    /\ splitOut.chunks = <<[chunk_id |-> 1, content |-> <<"a", " ", "b">>],
                           [chunk_id |-> 2, content |-> <<"a">>]>>

\* C2 as stated: split_transcript of a transcript with zero words returns
\* exactly one chunk, with chunk_id 1 and empty content.
C2_EmptyGivesOneChunk ==
    (splitOut.done /\ WordCount(splitIn.transcript) = 0) =>
        splitOut.chunks = <<[chunk_id |-> 1, content |-> <<>>]>>

\* C2 as amended: split_transcript of a transcript with zero words (the
\* empty string or only whitespace) returns no chunk at all.
C2_EmptyGivesNoChunk ==
    (splitOut.done /\ WordCount(splitIn.transcript) = 0) => splitOut.chunks = <<>>

\* C2 witness: a whitespace-only transcript has been split into no chunk.
C2_Witness ==
    /\ splitOut.done
    /\ splitIn.transcript = <<" ", "\n">>
    /\ splitOut.chunks = <<>>

(***************************************************************************)
(* The pipeline claims.                                                    *)
(***************************************************************************)
\* history holds exactly one record of video_id, and it holds transcript.
ExactlyOneRecord(records, video_id, transcript) ==
    /\ Cardinality({i \in 1..Len(records) : records[i].videoId = video_id}) = 1
    /\ \A i \in 1..Len(records) :
          records[i].videoId = video_id => records[i].transcript = transcript

\* C4 as stated: when POST /transcript has been called twice, one call after
\* the other, with the same videoId and the provider returned another
\* transcript the second time, history.json holds exactly one record of
\* that videoId, with the second transcript.
C4_TwoFetchesLeaveOneRecord ==
    (resp.route = "transcript" /\ resp.status = 200 /\ resp.repeat) =>
        ExactlyOneRecord(history, latest_video_id, resp.transcript)

\* C4 as amended: when POST /transcript has been called twice, one call
\* after the other, with the same videoId and the provider returned another
\* transcript the second time, and the second transcript is not empty, and
\* POST /summarize is called next and returns success, history.json holds
\* exactly one record of that videoId, with the second transcript.
C4_TwoFetchesThenSummarize ==
    (/\ resp.route = "summarize" /\ resp.status = 200 /\ resp.repeat
     /\ resp.transcript # <<>>) =>
        ExactlyOneRecord(history, latest_video_id, resp.transcript)

\* C4 witness: /transcript for v1 twice ("a", then "a a") and a successful
\* /summarize have left the one record of v1, which holds "a a".
C4_Witness ==
    /\ resp.route = "summarize" /\ resp.status = 200 /\ resp.repeat
    /\ resp.transcript = <<"a", " ", "a">>
    /\ Len(history) = 1
    /\ history[1].videoId = "v1"
    /\ history[1].transcript = <<"a", " ", "a">>

\* A POST /summarize is handled in this step.
SummarizeStep ==
    resp'.route = "summarize" /\ pending' = pending /\ now' = now

ProviderTranscripts(video_id) ==
    {full_transcript_of(l) : l \in ProviderSegments(video_id)}

\* C10: with the requests run one at a time, every record of the history
\* pairs a videoId with a transcript the provider returned for that videoId.
C10_RecordsPairOwnTranscript ==
    \A i \in 1..Len(history) :
        history[i].transcript \in ProviderTranscripts(history[i].videoId)

\* C3: an upsert by a single writer for a videoId not yet in history.json
\* adds exactly one record, at the end; an upsert for a videoId already
\* there leaves the count unchanged, replaces the whole record where it was
\* and leaves every other record, and the order, unchanged.
C3_UpsertAppendsOrReplaces ==
    upsertCall.done =>
        LET before == upsertCall.before
            record == [videoId |-> upsertCall.video_id,
                       timestamp |-> upsertCall.timestamp,
                       transcript |-> upsertCall.transcript,
                       summary |-> upsertCall.summary,
                       title |-> upsertCall.title]
            at == {i \in 1..Len(before) : before[i].videoId = upsertCall.video_id}
        IN  IF at = {}
            THEN /\ Len(history) = Len(before) + 1
                 /\ history[Len(history)] = record
                 /\ \A i \in 1..Len(before) : history[i] = before[i]
            ELSE /\ Len(history) = Len(before)
                 /\ Cardinality(at) = 1
                 /\ \A i \in 1..Len(before) :
                       history[i] = IF i \in at THEN record ELSE before[i]

\* C3 witness: the middle one of three records has been replaced by a record
\* with another transcript and another timestamp.
C3_Witness ==
    /\ upsertCall.done
    /\ Len(upsertCall.before) = 3
    /\ upsertCall.before[2].videoId = upsertCall.video_id
    /\ history[2].transcript # upsertCall.before[2].transcript
    /\ history[2].timestamp # upsertCall.before[2].timestamp
    /\ Len(history) = 3

\* The markdown has a line that, stripped, starts with "**Q".
HasQuestionMarker(markdown) ==
    \E i \in 1..Len(markdown) :
        LET line == StrStrip(markdown[i])
        IN  line # <<>> /\ line[1] = "**Q"

\* C7: parse_questionnaire_response applied to a markdown with no line
\* starting with "**Q" returns a questionnaire with no question and raises no
\* error, whatever headers, option-shaped lines or free text it holds.
C7_NoMarkerNoQuestions ==
    (parseOut.done /\ ~HasQuestionMarker(parseIn)) =>
        (parseOut.raised = "" /\ parseOut.questions = <<>>)

\* C6: evaluate_answers never raises to its caller, whatever the questionnaire
\* and the answers: a failure while the prompt is built, while the LLM is
\* called or while the JSON array is extracted gives the empty sequence, and
\* so does a response text with no "[" ... "]" pair.
C6_EvaluateNeverRaises ==
    evalOut.done =>
        /\ evalOut.raised = ""
        /\ (evalIn.llm.kind = "text" /\ BracketMatch(evalIn.llm.text) = <<>>)
               => evalOut.result = <<>>

\* C5: an authorized request whose body lacks a required field (POST
\* /transcript without videoId, POST /questionnaire without a non-empty
\* summary, POST /evaluate without questionnaire or without answers) is
\* answered with status 400, and no external collaborator is called.
C5_MissingFieldGives400 ==
    (/\ resp.route \in {"transcript", "questionnaire", "evaluate"}
     /\ auth_status(req.authorization) = 0
     /\ req.lacking)
        => (resp.status = 400 /\ called = {})

\* The header is absent or does not start with "Bearer ".
LacksBearer(h) ==
    \/ h = None
    \/ Len(h) < 7
    \/ SubSeq(h, 1, 7) # <<"B", "e", "a", "r", "e", "r", " ">>

\* The token of a header that starts with "Bearer ": the word behind it.
TokenOf(h) ==
    LET rest == SubSeq(h, 8, Len(h))
        stops == {i \in 1..Len(rest) : rest[i] = " "}
        end == IF stops = {} THEN Len(rest)
               ELSE (CHOOSE i \in stops : \A j \in stops : i <= j) - 1
    IN  SubSeq(rest, 1, end)

\* The step is a request to one of the four routes.
RequestStep == now' = now /\ pending \subseteq pending' /\ resp'.route # "none"

\* The step changes neither the pointer, the directory, the history nor the
\* background tasks, and calls no collaborator.
RejectedStep ==
    /\ latest_video_id' = latest_video_id
    /\ latest_transcript' = latest_transcript
    /\ dir' = dir
    /\ history' = history
    /\ pending' = pending
    /\ called' = {}

\* C8: on each of the four POST routes a request with no Authorization header
\* or one not starting with "Bearer " is answered 401, a request whose token
\* is not the API token is answered 403, and in both cases the latest-video
\* pointer, the chunk directory and the history are unchanged and no external
\* collaborator is called.
C8_BearerGate ==
    [][RequestStep =>
          /\ LacksBearer(req'.authorization)
                => (resp'.status = 401 /\ RejectedStep)
          /\ (~LacksBearer(req'.authorization) /\ TokenOf(req'.authorization) # API_TOKEN)
                => (resp'.status = 403 /\ RejectedStep)]_vars

C8_Witness ==
    /\ resp.route = "summarize"
    /\ resp.status = 403
    /\ req.authorization = Bearer(<<"x">>)
    /\ latest_video_id # NoneId
    /\ dir # <<>>
    /\ history # <<>>

\* C11: under every interleaving of POST /transcript requests, their
\* background chunk saves and POST /summarize requests, whenever /summarize
\* writes a history record, the chunk file its summary was computed from (the
\* newest of the directory) was saved for the video the record is written
\* for (the video the latest-video pointer names).
C11_SummaryFromOwnChunkFile ==
    [][(SummarizeStep /\ history' # history) =>
          (dir # <<>> /\ dir[Len(dir)].data.video_id = latest_video_id)]_vars

====
